---- MODULE Spec2Model ----
(***************************************************************************)
(* Version/history state machine and token ledger of the two ChatManager   *)
(* classes: src/chatbot.py (impl = "v1") and src/chatbot_v2.py             *)
(* (impl = "v2"), and of the Streamlit applications src/chatbot_ui_v2.py,  *)
(* whose ChatApp drives a chatbot_v2.ChatManager (impl = "ui_v2"), and     *)
(* src/chatbot_ui.py, which drives a chatbot.ChatManager (impl = "ui_v1"). *)
(*                                                                         *)
(* Python lists are objects: chat_versions, the live transcript            *)
(* (memory.chat_memory.messages) and every copy.deepcopy result are        *)
(* references into `heap`, so that aliasing between the live transcript    *)
(* and a stored version is something the model can express.                *)
(***************************************************************************)
EXTENDS Integers, Sequences, FiniteSets, TLC

\* ------------------------------------------------------------------ bounds
MaxOps == 4           \* operations called on one manager
MaxCalls == 3         \* _track_token_usage calls made by the ledger harness

\* ------------------------------------------------------------------ inputs
Inputs == {"q1", "q2"}                 \* user_input strings
Replies == {"r1"}                      \* completions returned by the model
Usage == {<<1, 1>>, <<2, 1>>}          \* (prompt, completion) tokens of a call
VersionNames == {"save", "draft"}      \* version_name given to save_version
\* indexes_to_delete: nothing, out-of-range only, single, middle, duplicate,
\* several, and in-range mixed with out-of-range indexes
DeleteRequests ==
  {<<>>, <<-1>>, <<7>>, <<0>>, <<1>>, <<2>>, <<1, 1>>, <<0, 1>>, <<3, 0>>,
   <<1, 7, -1>>, <<0, 1, 2, 3>>}

None == -1            \* Python None of current_version (indexes are >= 0)
RESET == 0            \* the "RESET" marker of the steps column (steps are >= 1)

VARIABLES
  impl,                   \* which program this session runs
  session_state,          \* ui_v1, ui_v2: st.session_state
  clock,                  \* time.time(), in seconds
  ops,                    \* history: number of operations called so far
  heap,                   \* list objects: heap[r] is the content of list r
  memory,                 \* self.memory.chat_memory.messages (a reference)
  chat_versions,          \* self.chat_versions: <<[label, messages(ref)]>>
  current_version,        \* self.current_version
  token_usage_history,    \* self.token_usage_history (seven columns)
  last_known_cumulative,  \* <<>> when the attribute is absent, else <<record>>
  callback_handler,       \* OpenAICallbackHandler counters
  change_log,             \* v2: self.change_log
  deleted_versions,       \* v1: self.deleted_versions (<<>> when absent)
  restored_versions,      \* v1: self.restored_versions (<<>> when absent)
  consumed,               \* history: tokens used by all model calls so far
  turn_results,           \* history: live transcripts left by completed turns
  restored_since_record,  \* history: a restore succeeded after the last
                          \* numbered ledger entry
  calls,                  \* history: number of harness record calls
  last_call               \* history: the operation that produced this state

vars == <<impl, session_state, clock, ops, heap, memory, chat_versions,
          current_version, token_usage_history, last_known_cumulative,
          callback_handler, change_log, deleted_versions, restored_versions,
          consumed, turn_results, restored_since_record, calls, last_call>>

\* ----------------------------------------------------------------- helpers
Max(a, b) == IF a >= b THEN a ELSE b

RECURSIVE SumSeq(_)
SumSeq(s) == IF s = <<>> THEN 0 ELSE s[1] + SumSeq(Tail(s))

HumanMessage(c) == [type |-> "human", content |-> c]
AIMessage(c) == [type |-> "ai", content |-> c]

\* time.time() read by an operation: each operation that reads the clock sees
\* the next second.
Timestamps == {clock + 1}

\* Version labels: time.strftime("%Y-%m-%d %H:%M:%S", time.localtime(t)), or
\* the version_name given to save_version.
strftime(t) == [time |-> t]
DefaultLabel(name) == [name |-> "version"]
NameLabel(name) == [name |-> name]

\* A new list object holding msgs; its reference is Len(heap) + 1.
NewList(h, msgs) == Append(h, msgs)

\* copy.deepcopy(list): a fresh list object with equal content.
shallowcopy(h, r) == [heap |-> h, ref |-> r]
deepcopy(h, r) == [heap |-> NewList(h, h[r]), ref |-> Len(h) + 1]

\* chat_memory.add_message: list.append on the list object itself.
add_message(h, r, msg) == [h EXCEPT ![r] = Append(@, msg)]

\* self.chat_versions.append((label, messages))
overwrite_last_version(versions, label, r) ==
  IF versions = <<>> THEN <<[label |-> label, messages |-> r]>>
  ELSE [versions EXCEPT ![Len(versions)] = [label |-> label, messages |-> r]]
append_version(versions, label, r) ==
  Append(versions, [label |-> label, messages |-> r])

\* The (role, content) messages of the live transcript and of version i
\* (0-based, as in the source).
LiveTranscript == heap[memory]
VersionMessages(i) == heap[chat_versions[i + 1].messages]
VersionLabel(i) == chat_versions[i + 1].label

\* ------------------------------------------------------------ token ledger
EmptyHistory ==
  [steps |-> <<>>,
   cumulative_tokens |-> <<>>,
   cumulative_prompt_tokens |-> <<>>,
   cumulative_completion_tokens |-> <<>>,
   individual_total_tokens |-> <<>>,
   individual_prompt_tokens |-> <<>>,
   individual_completion_tokens |-> <<>>]

ZeroCounters == [total_tokens |-> 0, prompt_tokens |-> 0, completion_tokens |-> 0]

RestartSteps(hist, step, ct, cp, cc, it, ip, ic) ==
  [steps |-> <<step>>,
   cumulative_tokens |-> Append(hist.cumulative_tokens, ct),
   cumulative_prompt_tokens |-> Append(hist.cumulative_prompt_tokens, cp),
   cumulative_completion_tokens |-> Append(hist.cumulative_completion_tokens, cc),
   individual_total_tokens |-> Append(hist.individual_total_tokens, it),
   individual_prompt_tokens |-> Append(hist.individual_prompt_tokens, ip),
   individual_completion_tokens |-> Append(hist.individual_completion_tokens, ic)]
AppendRow(hist, step, ct, cp, cc, it, ip, ic) ==
  [steps |-> Append(hist.steps, step),
   cumulative_tokens |-> Append(hist.cumulative_tokens, ct),
   cumulative_prompt_tokens |-> Append(hist.cumulative_prompt_tokens, cp),
   cumulative_completion_tokens |-> Append(hist.cumulative_completion_tokens, cc),
   individual_total_tokens |-> Append(hist.individual_total_tokens, it),
   individual_prompt_tokens |-> Append(hist.individual_prompt_tokens, ip),
   individual_completion_tokens |-> Append(hist.individual_completion_tokens, ic)]

\* The baseline record stored by a reset.
ZeroBaseline(cb) == [total |-> 0, prompt |-> 0, completion |-> 0]
Baseline(cb) ==
  [total |-> cb.total_tokens, prompt |-> cb.prompt_tokens,
   completion |-> cb.completion_tokens]

\* individual_x = max(0, x_used - prev_x)
unclamped_delta(used, prev) == used - prev
individual(used, prev) == Max(0, used - prev)

\* v1: the cumulative values of the most recent ledger row, 0 when empty.
V1_last_row(hist) ==
  [total |-> IF hist.cumulative_tokens # <<>>
             THEN hist.cumulative_tokens[Len(hist.cumulative_tokens)] ELSE 0,
   prompt |-> IF hist.cumulative_prompt_tokens # <<>>
              THEN hist.cumulative_prompt_tokens[Len(hist.cumulative_prompt_tokens)] ELSE 0,
   completion |-> IF hist.cumulative_completion_tokens # <<>>
                  THEN hist.cumulative_completion_tokens[Len(hist.cumulative_completion_tokens)] ELSE 0]
\* v1: the previous values a non-reset record subtracts.
V1_prev_ignoring_baseline(hist, lkc) == V1_last_row(hist)
V1_prev(hist, lkc) ==
  IF lkc # <<>>
  THEN [total |-> lkc[1].total, prompt |-> lkc[1].prompt,
        completion |-> lkc[1].completion]
  ELSE V1_last_row(hist)

\* v1 _track_token_usage: result is the new ledger and the new baseline.
V1_track_token_usage(hist, lkc, cb, is_reset) ==
  IF is_reset
  THEN [hist |-> hist, lkc |-> <<Baseline(cb)>>]
  ELSE LET prev == V1_prev(hist, lkc)
           individual_total == individual(cb.total_tokens, prev.total)
           individual_prompt == individual(cb.prompt_tokens, prev.prompt)
           individual_completion == individual(cb.completion_tokens, prev.completion)
           steps == Len(hist.steps) + 1
       IN [hist |-> AppendRow(hist, steps, cb.total_tokens, cb.prompt_tokens,
                              cb.completion_tokens, individual_total,
                              individual_prompt, individual_completion),
           lkc |-> <<>>]

\* v2: getattr(self, "last_known_cumulative", {}).get(key, 0)
V2_prev(hist, lkc) ==
  IF lkc # <<>>
  THEN [total |-> lkc[1].total, prompt |-> lkc[1].prompt,
        completion |-> lkc[1].completion]
  ELSE [total |-> 0, prompt |-> 0, completion |-> 0]

\* v2 _track_token_usage: the baseline is read but never deleted, and the
\* cumulative columns receive the individual values.
V2_track_token_usage(hist, lkc, cb, is_reset) ==
  IF is_reset
  THEN [hist |-> AppendRow(hist, RESET, 0, 0, 0, 0, 0, 0),
        lkc |-> <<Baseline(cb)>>]
  ELSE LET prev == V2_prev(hist, lkc)
           individual_total == individual(cb.total_tokens, prev.total)
           individual_prompt == individual(cb.prompt_tokens, prev.prompt)
           individual_completion == individual(cb.completion_tokens, prev.completion)
           step == Len(hist.steps) + 1
       IN [hist |-> AppendRow(hist, step, individual_total, individual_prompt,
                              individual_completion, individual_total,
                              individual_prompt, individual_completion),
           lkc |-> lkc]

track_token_usage(hist, lkc, cb, is_reset) ==
  IF impl \in {"v1", "ui_v1"} THEN V1_track_token_usage(hist, lkc, cb, is_reset)
  ELSE V2_track_token_usage(hist, lkc, cb, is_reset)

\* OpenAICallbackHandler.on_llm_end: the counters advance by the call's usage.
on_llm_end(cb, u) ==
  [total_tokens |-> cb.total_tokens + u[1] + u[2],
   prompt_tokens |-> cb.prompt_tokens + u[1],
   completion_tokens |-> cb.completion_tokens + u[2]]

\* chain.invoke(user_input) on success: the memory saves the human and the ai
\* message into the live list object.
save_context(h, r, user_input, reply) ==
  add_message(add_message(h, r, HumanMessage(user_input)), r, AIMessage(reply))

\* History record of an operation: its name, whether it succeeded, its index
\* argument (None when it has none), and the operation called before it.
Call(op, ok, index) ==
  [op |-> op, ok |-> ok, index |-> index, prev |-> last_call.op]

\* The history record of a delete_chat_messages call also keeps its argument.
DeleteCall(ok, indexes_to_delete) ==
  [op |-> "delete_chat_messages", ok |-> ok, index |-> None,
   prev |-> last_call.op, request |-> indexes_to_delete]

\* An entry of chatbot_v2's self.change_log: the time it was written, what
\* happened, and the version (index and label) it names.
LogEntry(time, event, version, label) ==
  [time |-> time, event |-> event, version |-> version, label |-> label]

\* chatbot_v2: self.change_log when __init__ returns; the "Initialized Chat"
\* entry of _create_initial_version is dropped by the assignment of line 36.
ChangeLogWithInitEntry ==
  <<LogEntry(strftime(0), "initialized", 0, strftime(0))>>
InitialChangeLog == <<>>

\* st.session_state of a program that has no Streamlit session.
NoSession ==
  [chat_versions |-> <<>>, restored |-> FALSE, reset_tokens |-> FALSE]

\* ChatApp.__init__ followed by the first script run, which has no user
\* input: display_versions finds st.session_state.chat_versions empty and
\* appends (timestamp, []), a new list object.
FirstRunSession ==
  [chat_versions |-> <<[label |-> strftime(0), messages |-> 3]>>,
   restored |-> FALSE, reset_tokens |-> FALSE]

\* The history record of a save_version call also keeps its argument.
SaveCall(version_name) ==
  [op |-> "save_version", ok |-> TRUE, index |-> None,
   prev |-> last_call.op, name |-> version_name]

\* chatbot_ui.py: init_chat followed by the first script run, which has no
\* user input: display_versions appends (timestamp, []) as "Version 0", a new
\* list object; current_chat is not set yet.
FirstRunSessionV1 ==
  [chat_versions |-> <<[label |-> strftime(0), messages |-> 2]>>,
   restored |-> FALSE, reset_tokens |-> FALSE, current_chat |-> None]

\* -------------------------------------------------------------------- Init
Init ==
  /\ impl \in {"v1", "v2", "ui_v1", "ui_v2"}
  /\ session_state = IF impl = "ui_v2" THEN FirstRunSession
                     ELSE IF impl = "ui_v1" THEN FirstRunSessionV1
                     ELSE NoSession
  /\ clock = 0
  /\ ops = 0
  /\ memory = 1
  /\ heap = IF impl = "v1" THEN << <<>> >>
            ELSE IF impl \in {"v2", "ui_v1"} THEN << <<>>, <<>> >>
            ELSE << <<>>, <<>>, <<>> >>
  /\ chat_versions = IF impl \in {"v1", "ui_v1"} THEN <<>>
                     ELSE <<[label |-> strftime(0), messages |-> 2]>>
  /\ current_version = IF impl \in {"v1", "ui_v1"} THEN None ELSE 0
  /\ token_usage_history = EmptyHistory
  /\ last_known_cumulative = <<>>
  /\ callback_handler = ZeroCounters
  /\ change_log = InitialChangeLog
  /\ deleted_versions = <<>>
  /\ restored_versions = <<>>
  /\ consumed = ZeroCounters
  /\ turn_results = {}
  /\ restored_since_record = FALSE
  /\ calls = 0
  /\ last_call = [op |-> "init", ok |-> TRUE, index |-> None, prev |-> "none"]

\* list[i] of Python: a negative i counts from the end of the list.
PyIndex(l, i) == IF i < 0 THEN l[Len(l) + i + 1] ELSE l[i + 1]

\* v2: version_index < 0 or version_index >= len(self.chat_versions)
V2_invalid_index_no_lower_bound(version_index, n) == version_index >= n
V2_invalid_index(version_index, n) == version_index < 0 \/ version_index >= n

\* v1: 0 <= version_number < len(self.chat_versions)
V1_valid_index(version_number, n) == 0 <= version_number /\ version_number < n

\* restore_version / restore_chat_version make no assignment to
\* self.chat_versions: the list after a restore is the list before it.
versions_truncated_at(versions, version_index) ==
  SubSeq(versions, 1, version_index + 1)
versions_after_restore(versions, version_index) == versions

\* ------------------------------------------------------- chatbot.py (v1)
\* process_user_input, lines 60-65: the pre-call snapshot, taken only when
\* the live transcript holds messages.
V1_snapshot_always(timestamp) ==
  LET c == deepcopy(heap, memory)
      versions == append_version(chat_versions, strftime(timestamp), c.ref)
  IN [heap |-> c.heap, chat_versions |-> versions,
      current_version |-> Len(versions) - 1]
V1_snapshot(timestamp) ==
  IF heap[memory] # <<>>
  THEN LET c == deepcopy(heap, memory)
           versions == append_version(chat_versions, strftime(timestamp), c.ref)
       IN [heap |-> c.heap, chat_versions |-> versions,
           current_version |-> Len(versions) - 1]
  ELSE [heap |-> heap, chat_versions |-> chat_versions,
        current_version |-> current_version]

\* process_user_input(user_input), the model call succeeds.
V1_process_user_input ==
  /\ impl = "v1"
  /\ ops < MaxOps
  /\ ops' = ops + 1
  /\ \E user_input \in Inputs, reply \in Replies, u \in Usage,
        timestamp \in Timestamps :
       LET s == V1_snapshot(timestamp)
           cb == on_llm_end(callback_handler, u)
           t == V1_track_token_usage(token_usage_history,
                                     last_known_cumulative, cb, FALSE)
       IN /\ clock' = timestamp
          /\ heap' = save_context(s.heap, memory, user_input, reply)
          /\ turn_results' = turn_results \cup
               {save_context(s.heap, memory, user_input, reply)[memory]}
          /\ chat_versions' = s.chat_versions
          /\ current_version' = s.current_version
          /\ callback_handler' = cb
          /\ consumed' = on_llm_end(consumed, u)
          /\ token_usage_history' = t.hist
          /\ last_known_cumulative' = t.lkc
          /\ restored_since_record' = FALSE
          /\ last_call' = Call("process_user_input", TRUE, None)
  /\ UNCHANGED <<impl, session_state, memory, change_log, deleted_versions,
                 restored_versions, calls>>

\* process_user_input(user_input), chain.invoke raises: the snapshot of
\* lines 63-65 has already been taken.
V1_process_user_input_fails ==
  /\ impl = "v1"
  /\ ops < MaxOps
  /\ ops' = ops + 1
  /\ \E timestamp \in Timestamps :
       LET s == V1_snapshot(timestamp)
       IN /\ clock' = timestamp
          /\ heap' = s.heap
          /\ chat_versions' = s.chat_versions
          /\ current_version' = s.current_version
          /\ last_call' = Call("process_user_input", FALSE, None)
  /\ UNCHANGED <<impl, session_state, restored_since_record, turn_results,
                 memory, token_usage_history, last_known_cumulative,
                 callback_handler, change_log, deleted_versions,
                 restored_versions, consumed, calls>>

\* i in valid_indexes
IsFirstOf(x, l) == l # <<>> /\ l[1] = x
InList(x, l) == \E k \in 1 .. Len(l) : l[k] = x

\* [msg for i, msg in enumerate(latest_messages) if i not in valid_indexes]
RECURSIVE Keep(_, _, _)
Keep(msgs, valid_indexes, i) ==
  IF msgs = <<>> THEN <<>>
  ELSE IF InList(i, valid_indexes)
       THEN Keep(Tail(msgs), valid_indexes, i + 1)
       ELSE <<Head(msgs)>> \o Keep(Tail(msgs), valid_indexes, i + 1)

\* valid_indexes = [i for i in indexes_to_delete if 0 <= i < len(latest_messages)]
ValidIndexes_inclusive(indexes_to_delete, n) ==
  SelectSeq(indexes_to_delete, LAMBDA i : 0 <= i /\ i <= n)
ValidIndexes(indexes_to_delete, n) ==
  SelectSeq(indexes_to_delete, LAMBDA i : 0 <= i /\ i < n)

\* delete_chat_messages(indexes_to_delete)
V1_delete_chat_messages ==
  /\ impl = "v1"
  /\ ops < MaxOps
  /\ ops' = ops + 1
  /\ \E indexes_to_delete \in DeleteRequests, timestamp \in Timestamps :
       LET latest == deepcopy(heap, memory)
           latest_messages == latest.heap[latest.ref]
           valid_indexes == ValidIndexes(indexes_to_delete, Len(latest_messages))
           new_version_messages == Keep(latest_messages, valid_indexes, 0)
           \* new_version_messages is a new list object
           h1 == NewList(latest.heap, new_version_messages)
           new_ref == Len(h1)
           \* memory.clear(): chat_memory.messages = [] (a new list object)
           h2 == NewList(h1, <<>>)
           mem == Len(h2)
           \* add_user_message / add_ai_message for each remaining message
           h3 == [h2 EXCEPT ![mem] = new_version_messages]
           c == deepcopy(h3, new_ref)
           versions == append_version(chat_versions, strftime(timestamp), c.ref)
       IN IF latest_messages = <<>> \/ valid_indexes = <<>>
          THEN /\ last_call' = DeleteCall(FALSE, indexes_to_delete)
               /\ UNCHANGED <<clock, heap, memory, chat_versions,
                              current_version, deleted_versions>>
          ELSE /\ clock' = timestamp
               /\ heap' = c.heap
               /\ memory' = mem
               /\ chat_versions' = versions
               /\ current_version' = Len(versions) - 1
               /\ deleted_versions' = Append(deleted_versions, Len(versions) - 1)
               /\ last_call' = DeleteCall(TRUE, indexes_to_delete)
  /\ UNCHANGED <<impl, session_state, restored_since_record, turn_results,
                 token_usage_history, last_known_cumulative,
                 callback_handler, change_log, restored_versions, consumed,
                 calls>>

\* restore_chat_version(version_number)
V1_restore_chat_version ==
  /\ impl = "v1"
  /\ ops < MaxOps
  /\ ops' = ops + 1
  /\ \E version_number \in -1 .. Len(chat_versions) :
       IF V1_valid_index(version_number, Len(chat_versions))
       THEN LET \* self.memory.clear(), then the messages of the version are
                \* added to the cleared memory
                h1 == NewList(heap, heap[PyIndex(chat_versions, version_number).messages])
                \* _initialize_llm_and_tracking(): a new callback handler and
                \* a new, empty ConversationBufferMemory replace the old ones
                h2 == NewList(h1, <<>>)
                cb == ZeroCounters
                t == V1_track_token_usage(token_usage_history,
                                          last_known_cumulative, cb, TRUE)
            IN /\ heap' = h2
               /\ memory' = Len(h2)
               /\ current_version' = version_number
               /\ callback_handler' = cb
               /\ token_usage_history' = t.hist
               /\ last_known_cumulative' = t.lkc
               /\ restored_versions' = Append(restored_versions, version_number)
               /\ chat_versions' = versions_after_restore(chat_versions, version_number)
               /\ restored_since_record' = TRUE
               /\ last_call' = Call("restore_chat_version", TRUE, version_number)
       ELSE /\ last_call' = Call("restore_chat_version", FALSE, version_number)
            /\ UNCHANGED <<restored_since_record, heap, memory,
                           current_version, callback_handler,
                           token_usage_history, last_known_cumulative,
                           restored_versions, chat_versions>>
  /\ UNCHANGED <<impl, session_state, turn_results, clock, change_log,
                 deleted_versions, consumed, calls>>

\* save_version(version_name)
V1_save_version ==
  /\ impl = "v1"
  /\ ops < MaxOps
  /\ ops' = ops + 1
  /\ \E version_name \in VersionNames, timestamp \in Timestamps :
       LET c == deepcopy(heap, memory)
           versions == append_version(chat_versions, NameLabel(version_name), c.ref)
       IN /\ clock' = timestamp
          /\ heap' = c.heap
          /\ chat_versions' = versions
          /\ current_version' = Len(versions) - 1
          /\ last_call' = SaveCall(version_name)
  /\ UNCHANGED <<impl, session_state, restored_since_record, turn_results,
                 memory, token_usage_history, last_known_cumulative,
                 callback_handler, change_log, deleted_versions,
                 restored_versions, consumed, calls>>

\* ---------------------------------------------------- chatbot_v2.py (v2)

\* process_user_input(user_input), the model call succeeds.
V2_process_user_input ==
  /\ impl = "v2"
  /\ ops < MaxOps
  /\ ops' = ops + 1
  /\ \E user_input \in Inputs, reply \in Replies, u \in Usage,
        timestamp \in Timestamps :
       LET h1 == save_context(heap, memory, user_input, reply)
           cb == on_llm_end(callback_handler, u)
           c == deepcopy(h1, memory)
           versions == append_version(chat_versions, strftime(timestamp), c.ref)
           t == V2_track_token_usage(token_usage_history,
                                     last_known_cumulative, cb, FALSE)
       IN /\ clock' = timestamp
          /\ heap' = c.heap
          /\ turn_results' = turn_results \cup {h1[memory]}
          /\ chat_versions' = versions
          /\ current_version' = Len(versions) - 1
          /\ change_log' = Append(change_log,
                                  LogEntry(strftime(timestamp), "new",
                                           Len(versions) - 1, strftime(timestamp)))
          /\ callback_handler' = cb
          /\ consumed' = on_llm_end(consumed, u)
          /\ token_usage_history' = t.hist
          /\ last_known_cumulative' = t.lkc
          /\ restored_since_record' = FALSE
          /\ last_call' = Call("process_user_input", TRUE, None)
  /\ UNCHANGED <<impl, session_state, memory, deleted_versions,
                 restored_versions, calls>>

\* process_user_input(user_input), chain.invoke raises at line 85.
V2_process_user_input_fails ==
  /\ impl = "v2"
  /\ ops < MaxOps
  /\ ops' = ops + 1
  /\ \E timestamp \in Timestamps : clock' = timestamp
  /\ last_call' = Call("process_user_input", FALSE, None)
  /\ UNCHANGED <<impl, session_state, restored_since_record, turn_results,
                 heap, memory, chat_versions, current_version,
                 token_usage_history, last_known_cumulative,
                 callback_handler, change_log, deleted_versions,
                 restored_versions, consumed, calls>>

\* restore_version(version_index)
V2_restore_version ==
  /\ impl = "v2"
  /\ ops < MaxOps
  /\ ops' = ops + 1
  /\ \E version_index \in -1 .. Len(chat_versions), restore_time \in Timestamps :
       IF V2_invalid_index(version_index, Len(chat_versions))
       THEN /\ last_call' = Call("restore_version", FALSE, version_index)
            /\ UNCHANGED <<restored_since_record, clock, heap, memory,
                           current_version, change_log, token_usage_history,
                           last_known_cumulative, chat_versions>>
       ELSE LET timestamp == PyIndex(chat_versions, version_index).label
                restored_messages == PyIndex(chat_versions, version_index).messages
                c == deepcopy(heap, restored_messages)
                t == V2_track_token_usage(token_usage_history,
                                          last_known_cumulative,
                                          callback_handler, TRUE)
            IN /\ clock' = restore_time
               /\ heap' = c.heap
               /\ memory' = c.ref
               /\ current_version' = version_index
               /\ change_log' = Append(change_log,
                                       LogEntry(strftime(restore_time), "restored",
                                                version_index, timestamp))
               /\ token_usage_history' = t.hist
               /\ last_known_cumulative' = t.lkc
               /\ chat_versions' = versions_after_restore(chat_versions, version_index)
               /\ restored_since_record' = TRUE
               /\ last_call' = Call("restore_version", TRUE, version_index)
  /\ UNCHANGED <<impl, session_state, turn_results, callback_handler,
                 deleted_versions, restored_versions, consumed, calls>>

\* ------------------------------------------- chatbot_ui_v2.py (ui_v2)
\* A message held as a dict {"type": ..., "content": ...}, not as a
\* HumanMessage / AIMessage object.
Dict(type, content) == [type |-> type, content |-> content, dict |-> TRUE]

\* isinstance(msg, dict) and isinstance(msg, HumanMessage)
IsDict(msg) == "dict" \in DOMAIN msg
IsHumanMessage(msg) == ~IsDict(msg) /\ msg.type = "human"

\* get_message_content(msg): msg.get("content") of a dict, msg.content of a
\* message object.
get_message_content(msg) == msg.content

\* handle_user_input, lines 124-134: every message that is not a HumanMessage
\* object becomes a dict of type "ai".
ToDicts(msgs) ==
  [k \in 1 .. Len(msgs) |->
     IF IsHumanMessage(msgs[k])
     THEN Dict("human", get_message_content(msgs[k]))
     ELSE Dict("ai", get_message_content(msgs[k]))]

\* handle_user_input, lines 106-109: the reset recorded when reset_tokens is
\* set.
App_reset_never(hist, lkc, cb, reset_tokens) == [hist |-> hist, lkc |-> lkc]
App_reset_if_flagged(hist, lkc, cb, reset_tokens) ==
  IF reset_tokens THEN V2_track_token_usage(hist, lkc, cb, TRUE)
  ELSE [hist |-> hist, lkc |-> lkc]

\* ChatApp.handle_user_input with a user input, the model call succeeds.
App_handle_user_input ==
  /\ impl = "ui_v2"
  /\ ops < MaxOps
  /\ ops' = ops + 1
  /\ \E user_input \in Inputs, reply \in Replies, u \in Usage,
        timestamp \in Timestamps :
       LET r == App_reset_if_flagged(token_usage_history,
                                     last_known_cumulative, callback_handler,
                                     session_state.reset_tokens)
           latest == deepcopy(heap, memory)
           \* chat_manager.process_user_input(user_input)
           h1 == save_context(latest.heap, memory, user_input, reply)
           cb == on_llm_end(callback_handler, u)
           c == deepcopy(h1, memory)
           versions == append_version(chat_versions, strftime(timestamp), c.ref)
           t == V2_track_token_usage(r.hist, r.lkc, cb, FALSE)
           updated == deepcopy(c.heap, memory)
           \* the two list comprehensions build new list objects
           h2 == NewList(updated.heap, ToDicts(updated.heap[latest.ref]))
           latest_version == Len(h2)
           h3 == NewList(h2, ToDicts(h2[updated.ref]))
           updated_version == Len(h3)
           checkpointed ==
             IF session_state.restored
             THEN append_version(session_state.chat_versions,
                                 strftime(timestamp), latest_version)
             ELSE session_state.chat_versions
       IN /\ clock' = timestamp
          /\ heap' = h3
          /\ turn_results' = turn_results \cup {h1[memory]}
          /\ chat_versions' = versions
          /\ current_version' = Len(versions) - 1
          /\ change_log' = Append(change_log,
                                  LogEntry(strftime(timestamp), "new",
                                           Len(versions) - 1, strftime(timestamp)))
          /\ callback_handler' = cb
          /\ consumed' = on_llm_end(consumed, u)
          /\ token_usage_history' = t.hist
          /\ last_known_cumulative' = t.lkc
          /\ session_state' =
               [chat_versions |->
                  append_version(checkpointed, strftime(timestamp),
                                 updated_version),
                restored |-> FALSE,
                reset_tokens |-> FALSE]
          /\ restored_since_record' = FALSE
          /\ last_call' = Call("handle_user_input", TRUE, None)
  /\ UNCHANGED <<impl, memory, deleted_versions, restored_versions, calls>>

\* ChatApp.handle_user_input with a user input, chain.invoke raises inside
\* process_user_input: lines 106-112 have run, nothing after line 116 does.
App_handle_user_input_fails ==
  /\ impl = "ui_v2"
  /\ ops < MaxOps
  /\ ops' = ops + 1
  /\ \E timestamp \in Timestamps :
       LET r == App_reset_if_flagged(token_usage_history,
                                     last_known_cumulative, callback_handler,
                                     session_state.reset_tokens)
           latest == deepcopy(heap, memory)
       IN /\ clock' = timestamp
          /\ heap' = latest.heap
          /\ token_usage_history' = r.hist
          /\ last_known_cumulative' = r.lkc
          /\ session_state' = [session_state EXCEPT !.reset_tokens = FALSE]
          /\ last_call' = Call("handle_user_input", FALSE, None)
  /\ UNCHANGED <<impl, memory, chat_versions, current_version,
                 callback_handler, change_log, deleted_versions,
                 restored_versions, consumed, turn_results,
                 restored_since_record, calls>>

\* ChatApp.display_versions, the restore button pressed with session version
\* version_index selected (lines 283-305).
App_restore_button ==
  /\ impl = "ui_v2"
  /\ ops < MaxOps
  /\ ops' = ops + 1
  /\ \E version_index \in 0 .. Len(session_state.chat_versions) - 1,
        new_timestamp \in Timestamps :
       LET selected_version_messages ==
             session_state.chat_versions[version_index + 1].messages
           \* memory.chat_memory.messages.clear(): the list object is emptied
           h1 == [heap EXCEPT ![memory] = <<>>]
           restored_messages == deepcopy(h1, selected_version_messages)
       IN /\ clock' = new_timestamp
          /\ heap' = restored_messages.heap
          /\ memory' = restored_messages.ref
          /\ session_state' =
               [chat_versions |->
                  append_version(session_state.chat_versions,
                                 strftime(new_timestamp), restored_messages.ref),
                restored |-> TRUE,
                reset_tokens |-> TRUE]
          /\ change_log' =
               Append(change_log,
                      LogEntry(strftime(new_timestamp), "restored chat",
                               version_index + 1,
                               session_state.chat_versions[version_index + 1].label))
          /\ restored_since_record' = TRUE
          /\ last_call' = Call("restore_button", TRUE, version_index)
  /\ UNCHANGED <<impl, chat_versions, current_version, token_usage_history,
                 last_known_cumulative, callback_handler, deleted_versions,
                 restored_versions, consumed, turn_results, calls>>

\* ---------------------------------------------- chatbot_ui.py (ui_v1)
\* handle_user_input, lines 78-83: a copy of the latest session version, or
\* a new empty list, with the input and the reply appended as dicts.
UI1_latest_version(h, session_versions, user_input, reply) ==
  LET base == IF session_versions # <<>>
              THEN h[session_versions[Len(session_versions)].messages]
              ELSE <<>>
  IN NewList(h, base \o <<Dict("human", user_input), Dict("ai", reply)>>)

\* handle_user_input with a user input, the model call succeeds.
UI1_handle_user_input ==
  /\ impl = "ui_v1"
  /\ ops < MaxOps
  /\ ops' = ops + 1
  /\ \E user_input \in Inputs, reply \in Replies, u \in Usage,
        timestamp \in Timestamps :
       LET \* chat_manager.process_user_input(user_input)
           s == V1_snapshot(timestamp)
           h1 == save_context(s.heap, memory, user_input, reply)
           cb == on_llm_end(callback_handler, u)
           t == V1_track_token_usage(token_usage_history,
                                     last_known_cumulative, cb, FALSE)
           h2 == UI1_latest_version(h1, session_state.chat_versions,
                                    user_input, reply)
           latest_version == Len(h2)
       IN /\ clock' = timestamp
          /\ heap' = h2
          /\ turn_results' = turn_results \cup {h1[memory]}
          /\ chat_versions' = s.chat_versions
          /\ current_version' = s.current_version
          /\ callback_handler' = cb
          /\ consumed' = on_llm_end(consumed, u)
          /\ token_usage_history' = t.hist
          /\ last_known_cumulative' = t.lkc
          /\ session_state' =
               [session_state EXCEPT
                  !.chat_versions = append_version(@, strftime(timestamp),
                                                   latest_version)]
          /\ restored_since_record' = FALSE
          /\ last_call' = Call("ui_handle_user_input", TRUE, None)
  /\ UNCHANGED <<impl, memory, change_log, deleted_versions,
                 restored_versions, calls>>

\* handle_user_input with a user input, chain.invoke raises inside
\* process_user_input: nothing after line 75 runs.
UI1_handle_user_input_fails ==
  /\ impl = "ui_v1"
  /\ ops < MaxOps
  /\ ops' = ops + 1
  /\ \E timestamp \in Timestamps :
       LET s == V1_snapshot(timestamp)
       IN /\ clock' = timestamp
          /\ heap' = s.heap
          /\ chat_versions' = s.chat_versions
          /\ current_version' = s.current_version
          /\ last_call' = Call("ui_handle_user_input", FALSE, None)
  /\ UNCHANGED <<impl, session_state, restored_since_record, turn_results,
                 memory, token_usage_history, last_known_cumulative,
                 callback_handler, change_log, deleted_versions,
                 restored_versions, consumed, calls>>

\* display_versions, "Restore Selected Version" pressed with session version
\* version_index selected (lines 234-238): the index of the session list is
\* passed to chat_manager.restore_chat_version.
UI1_restore_button ==
  /\ impl = "ui_v1"
  /\ ops < MaxOps
  /\ ops' = ops + 1
  /\ \E version_index \in 0 .. Len(session_state.chat_versions) - 1 :
       /\ session_state' =
            [session_state EXCEPT
               !.current_chat =
                  session_state.chat_versions[version_index + 1].messages]
       /\ IF V1_valid_index(version_index, Len(chat_versions))
          THEN LET restored == PyIndex(chat_versions, version_index)
                   h1 == NewList(heap, heap[restored.messages])
                   h2 == NewList(h1, <<>>)
                   cb == ZeroCounters
                   t == V1_track_token_usage(token_usage_history,
                                             last_known_cumulative, cb, TRUE)
               IN /\ heap' = h2
                  /\ memory' = Len(h2)
                  /\ current_version' = version_index
                  /\ callback_handler' = cb
                  /\ token_usage_history' = t.hist
                  /\ last_known_cumulative' = t.lkc
                  /\ restored_versions' =
                       Append(restored_versions, version_index)
                  /\ restored_since_record' = TRUE
                  /\ last_call' = Call("ui_restore_button", TRUE, version_index)
          ELSE /\ last_call' = Call("ui_restore_button", FALSE, version_index)
               /\ UNCHANGED <<restored_since_record, heap, memory,
                              current_version, callback_handler,
                              token_usage_history, last_known_cumulative,
                              restored_versions>>
  /\ UNCHANGED <<impl, chat_versions, turn_results, clock, change_log,
                 deleted_versions, consumed, calls>>

\* ---------------------------------------------------------- specification
Next ==
  \/ V1_process_user_input
  \/ V1_process_user_input_fails
  \/ V1_delete_chat_messages
  \/ V1_restore_chat_version
  \/ V1_save_version
  \/ V2_process_user_input
  \/ V2_process_user_input_fails
  \/ V2_restore_version
  \/ App_handle_user_input
  \/ App_handle_user_input_fails
  \/ App_restore_button
  \/ UI1_handle_user_input
  \/ UI1_handle_user_input_fails
  \/ UI1_restore_button

Spec == Init /\ [][Next]_vars

\* ------------------------------------------------------- ledger harness
\* _track_token_usage called directly on a fresh manager with arbitrary
\* counter values in the callback handler (the calls ChatApp makes at
\* src/chatbot_ui_v2.py:108, and any caller of the method).
\* (total, prompt, completion) counters: the spec's example, and small values
\* whose components rise and fall independently.
ExampleCounters == {<<100, 60, 40>>, <<150, 90, 60>>, <<170, 100, 70>>}
CounterInputs ==
  {<<0, 0, 0>>, <<2, 2, 0>>, <<3, 1, 2>>} \cup ExampleCounters

Counters(c) ==
  [total_tokens |-> c[1], prompt_tokens |-> c[2], completion_tokens |-> c[3]]

Track(c, is_reset) ==
  LET cb == Counters(c)
      t == track_token_usage(token_usage_history, last_known_cumulative,
                             cb, is_reset)
  IN /\ calls < MaxCalls
     /\ calls' = calls + 1
     /\ callback_handler' = cb
     /\ token_usage_history' = t.hist
     /\ last_known_cumulative' = t.lkc
     /\ restored_since_record' = (is_reset /\ restored_since_record)
     /\ last_call' = Call(IF is_reset THEN "reset" ELSE "record", TRUE, None)
     /\ UNCHANGED <<impl, session_state, turn_results, clock, ops, heap,
                    memory, chat_versions, current_version, change_log,
                    deleted_versions, restored_versions, consumed>>

TrackReset == \E c \in CounterInputs : Track(c, TRUE)
TrackRecord == \E c \in CounterInputs : Track(c, FALSE)

NextLedger == TrackReset \/ TrackRecord

SpecLedger == Init /\ [][NextLedger]_vars

\* ------------------------------------------------------------ properties
Turn(c) == c.op = "process_user_input" /\ c.ok
Delete(c) == c.op = "delete_chat_messages" /\ c.ok
Restore(c) == c.op \in {"restore_version", "restore_chat_version"}
VersionIndexes == 0 .. Len(chat_versions) - 1

\* The delta triple and the cumulative triple of ledger row k.
Deltas(hist, k) ==
  <<hist.individual_total_tokens[k], hist.individual_prompt_tokens[k],
    hist.individual_completion_tokens[k]>>
Cumulatives(hist, k) ==
  <<hist.cumulative_tokens[k], hist.cumulative_prompt_tokens[k],
    hist.cumulative_completion_tokens[k]>>
CounterTriple(cb) == <<cb.total_tokens, cb.prompt_tokens, cb.completion_tokens>>
ClampedDiff(a, b) ==
  <<Max(0, a[1] - b[1]), Max(0, a[2] - b[2]), Max(0, a[3] - b[3])>>
LedgerLen == Len(token_usage_history.steps)

\* C1: in chatbot_v2.ChatManager every successful process_user_input makes
\* chat_versions exactly one longer and sets current_version to the index of
\* the appended version, and no step ever makes chat_versions shorter.
C1_VersionMonotonicityV2 ==
  [][impl = "v2" =>
       /\ Len(chat_versions') >= Len(chat_versions)
       /\ Turn(last_call') =>
            /\ Len(chat_versions') = Len(chat_versions) + 1
            /\ current_version' = Len(chat_versions') - 1]_vars

\* C1 witness: a successful v2 turn made after a restore, with two versions
\* appended since construction.
C1_Witness ==
  /\ impl = "v2"
  /\ Turn(last_call)
  /\ Len(chat_versions) >= 3
  /\ \E k \in 1 .. Len(change_log) : change_log[k].event = "restored"

VersionsUntouched ==
  /\ chat_versions' = chat_versions
  /\ \A i \in VersionIndexes : heap'[chat_versions[i + 1].messages] = VersionMessages(i)
AuditUntouched ==
  /\ change_log' = change_log
  /\ restored_versions' = restored_versions
  /\ deleted_versions' = deleted_versions

\* C3 (as stated): a restore call, with any index, never changes the length
\* of chat_versions nor the label or messages of any version, and of the
\* history-store state it changes only the live transcript and
\* current_version.
C3_Original ==
  [][Restore(last_call') => VersionsUntouched /\ AuditUntouched]_vars

\* C3 (amended): a restore call, with any index, never changes the length of
\* chat_versions nor the label or messages of any version; of the
\* history-store state it changes only the live transcript, current_version
\* and the audit record of the restore (restored_versions in chatbot.py,
\* change_log in chatbot_v2.py).
C3_RestoreKeepsHistory ==
  [][Restore(last_call') =>
       /\ VersionsUntouched
       /\ deleted_versions' = deleted_versions
       /\ impl = "v1" => change_log' = change_log
       /\ impl = "v2" => restored_versions' = restored_versions]_vars

\* C3 witness: a second successful restore in a row, to a version with a
\* non-empty transcript.
C3_Witness ==
  /\ Restore(last_call)
  /\ last_call.ok
  /\ last_call.prev = last_call.op
  /\ VersionMessages(last_call.index) # <<>>

\* C4: in chatbot_v2.ChatManager a successful restore_version(i) leaves the
\* live transcript equal to the messages of version i and current_version = i,
\* and a process_user_input that then appends to the live transcript leaves
\* the messages of every existing version, version i included, unchanged.
C4_RestoreRoundTripV2 ==
  [][impl = "v2" =>
       /\ (last_call'.op = "restore_version" /\ last_call'.ok) =>
            /\ heap'[memory'] = VersionMessages(last_call'.index)
            /\ current_version' = last_call'.index
       /\ Turn(last_call') =>
            /\ Len(heap'[memory']) = Len(LiveTranscript) + 2
            /\ \A i \in VersionIndexes :
                 heap'[chat_versions[i + 1].messages] = VersionMessages(i)]_vars

\* C4 witness: a successful turn right after restoring a version with a
\* non-empty transcript.
C4_Witness ==
  /\ impl = "v2"
  /\ Turn(last_call)
  /\ last_call.prev = "restore_version"
  /\ Len(LiveTranscript) >= 4

\* C5: in chatbot.ChatManager, when restore_chat_version(i) returns for a
\* valid index i the live transcript holds the same messages as version i.
C5_RestoreLoadsVersionV1 ==
  (impl = "v1" /\ last_call.op = "restore_chat_version" /\ last_call.ok)
    => LiveTranscript = VersionMessages(last_call.index)

\* C6: every value stored in individual_total_tokens, individual_prompt_tokens
\* and individual_completion_tokens is >= 0, for any sequence of reset and
\* non-reset records with arbitrary non-negative counters.
C6_DeltasNonNegative ==
  \A k \in 1 .. LedgerLen :
    /\ token_usage_history.individual_total_tokens[k] >= 0
    /\ token_usage_history.individual_prompt_tokens[k] >= 0
    /\ token_usage_history.individual_completion_tokens[k] >= 0

\* C6 witness: a record made with counters below those of the previous ledger
\* row and no baseline in between, whose deltas were floored at zero.
C6_Witness ==
  /\ impl = "v1"
  /\ last_call.op = "record"
  /\ last_call.prev = "record"
  /\ LedgerLen >= 2
  /\ token_usage_history.cumulative_tokens[LedgerLen]
       < token_usage_history.cumulative_tokens[LedgerLen - 1]
  /\ token_usage_history.individual_total_tokens[LedgerLen] = 0

\* C7: the first non-reset record after a reset emits, for total, prompt and
\* completion, max(0, current counter - counter at the reset), not the
\* difference to the previous ledger row.
C7_ResetRebasing ==
  [][(last_call.op = "reset" /\ last_call'.op = "record") =>
       Deltas(token_usage_history', Len(token_usage_history'.steps))
         = ClampedDiff(CounterTriple(callback_handler'),
                       CounterTriple(callback_handler))]_vars

\* C7 witness: record(100,60,40), reset at (150,90,60), record(170,100,70)
\* has emitted (20,10,10).
C7_Witness ==
  /\ last_call.op = "record"
  /\ last_call.prev = "reset"
  /\ CounterTriple(callback_handler) = <<170, 100, 70>>
  /\ last_known_cumulative # <<>> =>
       last_known_cumulative[1] = [total |-> 150, prompt |-> 90, completion |-> 60]
  /\ LedgerLen >= 2
  /\ token_usage_history.individual_total_tokens[1] = 100
  /\ Deltas(token_usage_history, LedgerLen) = <<20, 10, 10>>

\* The cumulative triple of the most recent ledger entry, zero when the
\* ledger is empty.
LastCumulative ==
  IF LedgerLen = 0 THEN <<0, 0, 0>>
  ELSE Cumulatives(token_usage_history, LedgerLen)

\* C8: when no baseline is pending, a record made by a successful turn emits
\* max(0, current counter - cumulative value of the most recent ledger entry),
\* against zero only when the ledger is empty.
C8_DeltaAgainstLastRow ==
  [][(Turn(last_call') /\ last_known_cumulative = <<>>) =>
       Deltas(token_usage_history', Len(token_usage_history'.steps))
         = ClampedDiff(CounterTriple(callback_handler'), LastCumulative)]_vars

\* C9: the baseline stored by a reset is consumed by exactly one record: after
\* a successful turn no baseline is pending.
C9_BaselineConsumedOnce ==
  Turn(last_call) => last_known_cumulative = <<>>

\* C10: the sums of the individual_total_tokens, individual_prompt_tokens and
\* individual_completion_tokens columns equal the tokens consumed by all model
\* calls of the session.
C10_LedgerSumsToConsumption ==
  /\ SumSeq(token_usage_history.individual_total_tokens) = consumed.total_tokens
  /\ SumSeq(token_usage_history.individual_prompt_tokens) = consumed.prompt_tokens
  /\ SumSeq(token_usage_history.individual_completion_tokens)
       = consumed.completion_tokens

FailedTurn(c) == c.op = "process_user_input" /\ ~c.ok
InvalidRestore(c) == Restore(c) /\ ~c.ok

\* C11: when chain.invoke fails inside process_user_input, the live
\* transcript, chat_versions, current_version and token_usage_history are as
\* they were before the call, in both ChatManager classes.
C11_FailedTurnChangesNothing ==
  [][FailedTurn(last_call') =>
       /\ heap'[memory'] = LiveTranscript
       /\ chat_versions' = chat_versions
       /\ current_version' = current_version
       /\ token_usage_history' = token_usage_history]_vars

\* C12: a restore call with an index outside [0, len(chat_versions)) reports
\* the invalid outcome, and only such a call does; it leaves the live
\* transcript, chat_versions, current_version, token_usage_history, the
\* pending baseline, the counters and the change log and tags unchanged.
C12_InvalidRestoreChangesNothing ==
  [][Restore(last_call') =>
       /\ last_call'.ok <=> last_call'.index \in VersionIndexes
       /\ ~last_call'.ok =>
            /\ memory' = memory
            /\ heap' = heap
            /\ chat_versions' = chat_versions
            /\ current_version' = current_version
            /\ token_usage_history' = token_usage_history
            /\ last_known_cumulative' = last_known_cumulative
            /\ callback_handler' = callback_handler
            /\ change_log' = change_log
            /\ restored_versions' = restored_versions
            /\ deleted_versions' = deleted_versions]_vars

\* C12 witness: a restore rejected for a negative index, called when versions
\* exist, the live transcript holds messages and a baseline is pending.
C12_Witness ==
  /\ InvalidRestore(last_call)
  /\ last_call.index = -1
  /\ Len(chat_versions) >= 2
  /\ LiveTranscript # <<>>
  /\ last_known_cumulative # <<>>

\* The positions of msgs (0-based) that a request leaves in place, and the
\* messages at those positions in their original order.
KeptPositions(msgs, request) ==
  {p \in 0 .. Len(msgs) - 1 : \A k \in 1 .. Len(request) : request[k] # p}
Remaining(msgs, request) ==
  LET kept == KeptPositions(msgs, request)
      nth(j) == CHOOSE p \in kept : Cardinality({q \in kept : q < p}) = j - 1
  IN [j \in 1 .. Cardinality(kept) |-> msgs[nth(j) + 1]]

\* C13: a non-NoOp delete_chat_messages(indexes) leaves as live transcript
\* exactly the messages whose position is not among the requested indexes, in
\* their original order, and the version it appends holds the same sequence.
C13_DeleteKeepsTheRest ==
  [][Delete(last_call') =>
       /\ heap'[memory'] = Remaining(LiveTranscript, last_call'.request)
       /\ heap'[chat_versions'[Len(chat_versions')].messages]
            = Remaining(LiveTranscript, last_call'.request)]_vars

\* C13 witness: a delete from a four-message transcript whose request names a
\* middle position along with out-of-range indexes, or one position twice.
C13_Witness ==
  /\ Delete(last_call)
  /\ last_call.request \in {<<1, 7, -1>>, <<1, 1>>}
  /\ Len(LiveTranscript) = 3
  /\ LiveTranscript[1].type = "human"
  /\ LiveTranscript[2].type = "human"
  /\ VersionMessages(Len(chat_versions) - 1) = LiveTranscript

\* C14: delete_chat_messages on an empty live transcript, or with no index
\* inside [0, len(live transcript)), is a NoOp: the live transcript,
\* chat_versions, current_version and deleted_versions are unchanged.
C14_DeleteNoOp ==
  [][(/\ last_call'.op = "delete_chat_messages"
      /\ \A k \in 1 .. Len(last_call'.request) :
           ~(0 <= last_call'.request[k]
             /\ last_call'.request[k] < Len(LiveTranscript)))
       => /\ ~last_call'.ok
          /\ memory' = memory
          /\ heap' = heap
          /\ chat_versions' = chat_versions
          /\ current_version' = current_version
          /\ deleted_versions' = deleted_versions]_vars

\* C14 witness: a NoOp delete on a two-message transcript whose only index is
\* the length of the transcript.
C14_Witness ==
  /\ last_call.op = "delete_chat_messages"
  /\ ~last_call.ok
  /\ last_call.request = <<2>>
  /\ Len(LiveTranscript) = 2

\* C15: save_version called while the live transcript is empty appends no
\* version and leaves chat_versions and current_version unchanged.
C15_SaveVersionOnEmptyIsNoOp ==
  [][(last_call'.op = "save_version" /\ LiveTranscript = <<>>) =>
       /\ chat_versions' = chat_versions
       /\ current_version' = current_version]_vars

\* C16: once a version is in chat_versions, no operation of either manager
\* changes its messages, and it stays at its index.
C16_VersionsImmutable ==
  [][/\ Len(chat_versions') >= Len(chat_versions)
     /\ \A i \in VersionIndexes :
          heap'[chat_versions'[i + 1].messages] = VersionMessages(i)]_vars

\* C16 witness: a delete that shortened the live transcript while the version
\* snapshotted by the turn before it still holds all four messages.
C16_Witness ==
  /\ Delete(last_call)
  /\ Len(chat_versions) = 2
  /\ Len(VersionMessages(0)) = 2
  /\ Len(LiveTranscript) < 4
  /\ Cardinality(turn_results) = 2

\* C17: every transcript that was the live transcript right after a completed
\* turn is the messages of some version in chat_versions.
C17_TurnResultsRecoverable ==
  \A t \in turn_results : \E i \in VersionIndexes : VersionMessages(i) = t

NumberedSteps == SelectSeq(token_usage_history.steps, LAMBDA x : x # RESET)

\* C20: the numbered ledger entries carry the steps 1, 2, 3, ... in order,
\* however many reset sentinel rows lie between them.
C20_StepsCountNumberedEntries ==
  \A k \in 1 .. Len(NumberedSteps) : NumberedSteps[k] = k

\* A step that appends a numbered (non-sentinel) ledger entry.
NumberedEntry ==
  /\ Len(token_usage_history'.steps) > LedgerLen
  /\ token_usage_history'.steps[Len(token_usage_history'.steps)] # RESET

\* C18: after a successful restore (restore_version, restore_chat_version or
\* the ChatApp restore button) and until the next numbered ledger entry, a
\* baseline holding the current counter values is pending or, in ChatApp,
\* reset_tokens is set; the next numbered entry is then computed against a
\* baseline that a reset captured from the counters current at the reset
\* (in ChatApp the reset is recorded, as a sentinel entry, by the same
\* handle_user_input before the model call), so its deltas are the counter
\* increase since that reset.
C18_RestoreRebasesLedger ==
  [][/\ restored_since_record' =>
          \/ last_known_cumulative' = <<Baseline(callback_handler')>>
          \/ session_state'.reset_tokens
     /\ (restored_since_record /\ NumberedEntry) =>
          /\ session_state.reset_tokens =>
               /\ Len(token_usage_history'.steps) = LedgerLen + 2
               /\ token_usage_history'.steps[LedgerLen + 1] = RESET
               /\ last_known_cumulative' = <<Baseline(callback_handler)>>
          /\ ~session_state.reset_tokens =>
               /\ Len(token_usage_history'.steps) = LedgerLen + 1
               /\ last_known_cumulative = <<Baseline(callback_handler)>>
          /\ Deltas(token_usage_history', Len(token_usage_history'.steps))
               = ClampedDiff(CounterTriple(callback_handler'),
                             CounterTriple(callback_handler))]_vars

\* C18 witness: in ChatApp, a handled input right after the restore button,
\* whose reset captured non-zero counters left by an earlier turn.
C18_Witness ==
  /\ impl = "ui_v2"
  /\ last_call.op = "handle_user_input"
  /\ last_call.ok
  /\ last_call.prev = "restore_button"
  /\ LedgerLen >= 3
  /\ token_usage_history.steps[LedgerLen - 1] = RESET
  /\ last_known_cumulative # <<>>
  /\ last_known_cumulative[1].total > 0
  /\ ~restored_since_record

\* C21: in chatbot_v2.ChatManager, right after construction chat_versions
\* holds exactly one version, at index 0, with an empty transcript, and
\* current_version = 0; in every later state chat_versions[0] is still that
\* version, with its label and its empty transcript.
C21_InitialVersionKept ==
  impl = "v2" =>
    /\ Len(chat_versions) >= 1
    /\ VersionLabel(0) = strftime(0)
    /\ VersionMessages(0) = <<>>
    /\ last_call.op = "init" => (Len(chat_versions) = 1 /\ current_version = 0)

\* C21 witness: a successful turn made after restoring version 0, with the
\* live transcript two turns long.
C21_Witness ==
  /\ impl = "v2"
  /\ Turn(last_call)
  /\ \E k \in 1 .. Len(change_log) :
       change_log[k].event = "restored" /\ change_log[k].version = 0
  /\ Len(chat_versions) >= 3
  /\ Len(LiveTranscript) = 2
  /\ VersionMessages(0) = <<>>

\* C22: save_version(name) called on a non-empty live transcript appends
\* exactly one version, labelled name and holding the messages of the live
\* transcript, sets current_version to its index, and leaves the live
\* transcript and every earlier version unchanged.
C22_SaveVersionSnapshots ==
  [][(last_call'.op = "save_version" /\ LiveTranscript # <<>>) =>
       /\ Len(chat_versions') = Len(chat_versions) + 1
       /\ chat_versions'[Len(chat_versions')].label = [name |-> last_call'.name]
       /\ heap'[chat_versions'[Len(chat_versions')].messages] = LiveTranscript
       /\ current_version' = Len(chat_versions') - 1
       /\ heap'[memory'] = LiveTranscript
       /\ \A i \in VersionIndexes :
            /\ chat_versions'[i + 1] = chat_versions[i + 1]
            /\ heap'[chat_versions'[i + 1].messages] = VersionMessages(i)]_vars

\* C22 witness: a save_version("draft") made on a two-message transcript
\* when an earlier version already exists.
C22_Witness ==
  /\ last_call.op = "save_version"
  /\ last_call.name = "draft"
  /\ Len(chat_versions) >= 2
  /\ Len(LiveTranscript) = 2
  /\ VersionLabel(Len(chat_versions) - 1) = [name |-> "draft"]
  /\ current_version = Len(chat_versions) - 1

\* The version list shown to the user: st.session_state.chat_versions in
\* ChatApp, chat_versions of the manager otherwise.
VersionListLen(managerVersions, session) ==
  IF impl = "ui_v2" THEN Len(session.chat_versions) ELSE Len(managerVersions)

\* C23: every operation that structurally changes the live transcript (a
\* successful turn, a non-NoOp delete, a successful restore) appends exactly
\* one version to the version list.
C23_EveryMutationAppendsOneVersion ==
  [][(\/ Turn(last_call')
      \/ Delete(last_call')
      \/ (Restore(last_call') /\ last_call'.ok)
      \/ (last_call'.op = "handle_user_input" /\ last_call'.ok)
      \/ last_call'.op = "restore_button")
       => VersionListLen(chat_versions', session_state')
            = VersionListLen(chat_versions, session_state) + 1]_vars

C25_LiveIsCurrentVersion ==
  impl = "v2" =>
    /\ current_version \in VersionIndexes
    /\ LiveTranscript = VersionMessages(current_version)

\* C25 witness: a failed turn after restoring a version that is neither the
\* empty first version nor the latest one.
C25_Witness ==
  /\ impl = "v2"
  /\ FailedTurn(last_call)
  /\ last_call.prev = "restore_version"
  /\ current_version > 0
  /\ current_version < Len(chat_versions) - 1
  /\ LiveTranscript # <<>>

\* C26: every numbered ledger entry holds, in cumulative_tokens,
\* cumulative_prompt_tokens and cumulative_completion_tokens, the counter
\* values of the callback handler at that record call, not the deltas.
C26_CumulativeColumnsHoldCounters ==
  [][NumberedEntry =>
       Cumulatives(token_usage_history', Len(token_usage_history'.steps))
         = CounterTriple(callback_handler')]_vars

\* The session versions of ChatApp: their count, and the label and messages
\* of session version i (0-based).
SessionIndexes == 0 .. Len(session_state.chat_versions) - 1
SessionLabel(i) == session_state.chat_versions[i + 1].label
SessionMessages(i) == heap[session_state.chat_versions[i + 1].messages]

\* C27: in ChatApp a version stored in st.session_state.chat_versions is
\* never changed after it was appended: no later turn and no later restore
\* alters the label or the messages of the version created by the restore
\* button or of any earlier version.
C27_SessionVersionsImmutable ==
  [][impl = "ui_v2" =>
       /\ Len(session_state'.chat_versions) >= Len(session_state.chat_versions)
       /\ \A i \in SessionIndexes :
            /\ session_state'.chat_versions[i + 1].label = SessionLabel(i)
            /\ heap'[session_state'.chat_versions[i + 1].messages]
                 = SessionMessages(i)]_vars

\* The sequence of message contents of a transcript.
Contents(msgs) == [k \in 1 .. Len(msgs) |-> msgs[k].content]

\* C28: in ChatApp, pressing the restore button with session version k
\* selected, in any state, leaves the live transcript with the sequence of
\* message contents that version k held before the button was pressed.
C28_RestoreButtonLoadsVersion ==
  [][last_call'.op = "restore_button" =>
       Contents(heap'[memory'])
         = Contents(SessionMessages(last_call'.index))]_vars

\* C29: in ChatApp every message recorded in a session version carries the
\* role it entered the conversation with: a user input is recorded as
\* "human" and a model reply as "ai", also in the versions handle_user_input
\* saves after a restore.
C29_SessionRolesKept ==
  impl = "ui_v2" =>
    \A i \in SessionIndexes :
      \A k \in 1 .. Len(SessionMessages(i)) :
        /\ SessionMessages(i)[k].content \in Inputs
             => SessionMessages(i)[k].type = "human"
        /\ SessionMessages(i)[k].content \in Replies
             => SessionMessages(i)[k].type = "ai"

\* The (role, content) pairs of a transcript, whatever the class of its
\* messages.
RoleContents(msgs) ==
  [k \in 1 .. Len(msgs) |-> <<msgs[k].type, msgs[k].content>>]

HandledInput(c) == c.op = "handle_user_input" /\ c.ok

\* The messages of session version number n (1-based) after the step.
SessionMessagesAfter(n) == heap'[session_state'.chat_versions[n].messages]

\* C30: a successfully handled input that follows the restore button records
\* exactly one ledger reset before the numbered entry of the model call and
\* appends exactly two session versions, a checkpoint equal to the pre-turn
\* live transcript and then the post-turn transcript; a successfully handled
\* input with no restore before it records no reset and appends exactly one
\* version, the post-turn transcript; after either, restored and reset_tokens
\* are both False.
C30_HandledInputAfterRestore ==
  [][HandledInput(last_call') =>
       LET n == Len(session_state.chat_versions)
           m == Len(session_state'.chat_versions)
       IN /\ ~session_state'.restored
          /\ ~session_state'.reset_tokens
          /\ RoleContents(SessionMessagesAfter(m))
               = RoleContents(heap'[memory'])
          /\ last_call.op = "restore_button" =>
               /\ Len(token_usage_history'.steps) = LedgerLen + 2
               /\ token_usage_history'.steps[LedgerLen + 1] = RESET
               /\ token_usage_history'.steps[LedgerLen + 2] # RESET
               /\ m = n + 2
               /\ RoleContents(SessionMessagesAfter(n + 1))
                    = RoleContents(LiveTranscript)
          /\ ~session_state.restored =>
               /\ Len(token_usage_history'.steps) = LedgerLen + 1
               /\ token_usage_history'.steps[LedgerLen + 1] # RESET
               /\ m = n + 1]_vars

\* C31: in chatbot_ui.py, after every handled turn, also one that follows a
\* restore, the version newly appended to st.session_state.chat_versions has
\* the same sequence of (role, content) messages as the live transcript of
\* the manager.
C31_SessionVersionIsLiveTranscript ==
  [][(last_call'.op = "ui_handle_user_input" /\ last_call'.ok) =>
       /\ Len(session_state'.chat_versions)
            = Len(session_state.chat_versions) + 1
       /\ RoleContents(SessionMessagesAfter(Len(session_state'.chat_versions)))
            = RoleContents(heap'[memory'])]_vars

\* C32: in chatbot_ui.py every index i of st.session_state.chat_versions is
\* an index of chat_manager.chat_versions, and the manager's version i has
\* the same message contents as the session version i shown to the user.
C32_SessionIndexNamesManagerVersion ==
  impl = "ui_v1" =>
    \A i \in SessionIndexes :
      /\ i \in VersionIndexes
      /\ Contents(VersionMessages(i)) = Contents(SessionMessages(i))

\* C33: in both ChatManager classes, in every state, current_version is
\* None, and then no version exists, or it is an index of chat_versions.
C33_CurrentVersionInRange ==
  IF current_version = None
  THEN chat_versions = <<>>
  ELSE 0 <= current_version /\ current_version < Len(chat_versions)

\* C33 witness: chatbot.py after a successful restore of a version that is
\* not the latest, made after a delete.
C33_Witness ==
  /\ impl = "v1"
  /\ last_call.op = "restore_chat_version"
  /\ last_call.ok
  /\ deleted_versions # <<>>
  /\ current_version = 0
  /\ Len(chat_versions) >= 2

\* The seven columns of the ledger.
Columns ==
  {"steps", "cumulative_tokens", "cumulative_prompt_tokens",
   "cumulative_completion_tokens", "individual_total_tokens",
   "individual_prompt_tokens", "individual_completion_tokens"}

\* The number of _track_token_usage calls made by the step: two when ChatApp
\* records the reset and then the turn in one handle_user_input, else at
\* most one.
TrackCallsOfStep ==
  IF impl = "ui_v2" /\ HandledInput(last_call') /\ session_state.reset_tokens
  THEN 2 ELSE 1

\* C34: the ledger is append-only: no operation (turn, restore, delete, reset
\* or non-reset record) removes or rewrites an entry already in
\* token_usage_history, and each _track_token_usage call appends at most one
\* entry.
C34_LedgerAppendOnly ==
  [][\A col \in Columns :
       /\ Len(token_usage_history'[col]) >= Len(token_usage_history[col])
       /\ Len(token_usage_history'[col])
            <= Len(token_usage_history[col]) + TrackCallsOfStep
       /\ SubSeq(token_usage_history'[col], 1, Len(token_usage_history[col]))
            = token_usage_history[col]]_vars

\* C34 witness: chatbot_v2 after a turn, a restore and a turn: a numbered
\* entry, a sentinel entry and a numbered entry.
C34_Witness ==
  /\ impl = "v2"
  /\ Turn(last_call)
  /\ last_call.prev = "restore_version"
  /\ LedgerLen = 3
  /\ token_usage_history.steps[1] # RESET
  /\ token_usage_history.steps[2] = RESET

\* C35: in every state the seven columns of token_usage_history have the
\* same length, after any interleaving of reset and non-reset records.
C35_ColumnsSameLength ==
  \A col \in Columns : Len(token_usage_history[col]) = LedgerLen

\* C35 witness: chatbot_v2 after a record, a reset, a record and a reset.
C35_Witness ==
  /\ impl = "v2"
  /\ last_call.op = "reset"
  /\ last_call.prev = "record"
  /\ calls >= 3
  /\ LedgerLen >= 3
  /\ token_usage_history.steps[LedgerLen - 1] # RESET
  /\ token_usage_history.steps[LedgerLen - 2] = RESET

====
